---- MODULE Spec2Model ----
(***************************************************************************)
(* State-machine model of the flax entity / component / event core         *)
(* (src/flax/things/arch.py): ThingType construction, Thing creation,      *)
(* capability lookup, attribute slots with modifiers, and event dispatch   *)
(* through per-component handler tables.                                   *)
(***************************************************************************)
EXTENDS Integers, Sequences, FiniteSets, TLC

(***************************************************************************)
(* Bounds of the model.                                                    *)
(***************************************************************************)
\* Longest runtime modifier list a Thing may carry.
MaxMods == 2
\* Longest immediate queue.
MaxQueue == 2
\* Longest queue of events waiting for a later tick.
MaxDeferred == 2
\* Longest inventory.
MaxInventory == 1
\* Lowest stored health the model follows: MaxOverkill below zero.
MaxOverkill == 5
\* Highest stored health the model follows.
MaxHealth == 15
\* Longest component list given to the ThingType constructor.
MaxComponents == 2

(***************************************************************************)
(* Program constants.                                                      *)
(***************************************************************************)
\* Combatant.health initializer
HealthDefault == 10
\* Combatant.strength initializer
StrengthDefault == 3
\* amount of the Damage queued by Combatant.handle_attack
AttackDamage == 5
\* add of the Armor type's strength modifier
ArmorStrength == 3

(***************************************************************************)
(* Generic sequence helpers.                                               *)
(***************************************************************************)
Range(s) == {s[i] : i \in 1..Len(s)}

(***************************************************************************)
(* Interfaces and attribute slots.                                         *)
(***************************************************************************)
IComponent == "IComponent"

Interfaces ==
    {"IPhysics", "IContainer", "ICombatant", "IActor", "IPortable",
     "IEquipment", "IObserver", "IScout"}

\* A slot is identified by the zope attribute (interface, name).
Health == "ICombatant.health"
Strength == "ICombatant.strength"
Inventory == "IContainer.inventory"

Slots == {Health, Strength, Inventory}

\* The interface that declares each slot.
SlotIface(attr) == IF attr = Inventory THEN "IContainer" ELSE "ICombatant"

\* The default provider wrapped by @attribute.
Initializer(attr) ==
    CASE attr = Health -> HealthDefault
      [] attr = Strength -> StrengthDefault
      [] attr = Inventory -> <<>>

(***************************************************************************)
(* Modifiers.                                                              *)
(***************************************************************************)
Modifier(stat, add) == [stat |-> stat, add |-> add]

\* Mutant: the modifier is applied to every numeric slot, whatever its stat.
ModifyAnyStat(mod, attr, value) ==
    IF attr = Inventory THEN value ELSE value + mod.add

\* Modifier.modify
Modify(mod, attr, value) ==
    IF attr # mod.stat THEN value ELSE value + mod.add

ArmorModifiers == <<Modifier(Strength, ArmorStrength)>>

(***************************************************************************)
(* Event classes.  flax.event is not part of the sources at hand: the      *)
(* hierarchy is the one the specification describes (a root Event, the     *)
(* concrete events below it, MeleeAttack below a base Attack).             *)
(***************************************************************************)
EventClasses ==
    {"object", "Event", "Attack", "MeleeAttack", "Damage", "Die", "Walk",
     "PickUp", "Equip"}

\* type(event).__mro__
Mro(cls) ==
    CASE cls = "object" -> <<"object">>
      [] cls = "Event" -> <<"Event", "object">>
      [] cls = "MeleeAttack" -> <<"MeleeAttack", "Attack", "Event", "object">>
      [] OTHER -> <<cls, "Event", "object">>

\* An event object: its class, actor, target, payload and outcome flag.
Event(cls, actor, target, amount) ==
    [cls |-> cls, actor |-> actor, target |-> target, amount |-> amount,
     cancelled |-> FALSE]

\* Damage(entity, amount), Die(entity): the entity is the event's target.
Damage(entity, amount) == Event("Damage", 0, entity, amount)
Die(entity) == Event("Die", 0, entity, 0)

(***************************************************************************)
(* Component classes: the interfaces each class implements, and the        *)
(* handlers declared in each class body.  Observer and Scout are component *)
(* classes a game author would write with @handler: Observer registers     *)
(* handlers for ancestor event classes, declares two handlers for Walk,    *)
(* the first of which cancels, and stacks two @handler decorators on one   *)
(* function.  Lookout is a subclass of Observer that declares one handler  *)
(* of its own.                                                             *)
(***************************************************************************)
Components ==
    {"Solid", "Empty", "Container", "Combatant", "GenericAI",
     "PlayerIntelligence", "Portable", "Equipment", "Observer", "Scout",
     "Lookout"}

\* zi.implementedBy(component): declared interfaces, then the inherited marker.
ImplementedBy(component) ==
    CASE component = "Solid" -> <<"IPhysics", IComponent>>
      [] component = "Empty" -> <<"IPhysics", IComponent>>
      [] component = "Container" -> <<"IContainer", IComponent>>
      [] component = "Combatant" -> <<"ICombatant", IComponent>>
      [] component = "GenericAI" -> <<"IActor", IComponent>>
      [] component = "PlayerIntelligence" -> <<"IActor", IComponent>>
      [] component = "Portable" -> <<"IPortable", IComponent>>
      [] component = "Equipment" -> <<"IEquipment", IComponent>>
      [] component = "Observer" -> <<"IObserver", IComponent>>
      [] component = "Scout" -> <<"IObserver", "IScout", IComponent>>
      [] component = "Lookout" -> <<"IObserver", IComponent>>

\* A handler declaration: Handler(func, event_class), then add() per extra
\* decorator.
HandlerDecl(func, event_classes) ==
    [func |-> func, event_classes |-> event_classes]

\* The Handler attributes of a class body, in declaration order.
ClassBody(component) ==
    CASE component = "Solid" -> <<HandlerDecl("Solid.handle_walk", <<"Walk">>)>>
      [] component = "Empty" -> <<HandlerDecl("Empty.handle_walk", <<"Walk">>)>>
      [] component = "Combatant" ->
            <<HandlerDecl("Combatant.handle_damage", <<"Damage">>),
              HandlerDecl("Combatant.handle_attack", <<"MeleeAttack">>),
              HandlerDecl("Combatant.handle_death", <<"Die">>)>>
      [] component = "Portable" ->
            <<HandlerDecl("Portable.handle_picked_up", <<"PickUp">>)>>
      [] component = "Equipment" ->
            <<HandlerDecl("Equipment.handle_equip", <<"Equip">>)>>
      [] component = "Observer" ->
            <<HandlerDecl("Observer.on_event", <<"Event">>),
              HandlerDecl("Observer.on_attack", <<"Attack">>),
              HandlerDecl("Observer.on_melee", <<"MeleeAttack">>),
              HandlerDecl("Observer.veto", <<"Walk">>),
              HandlerDecl("Observer.after_veto", <<"Die", "Walk">>)>>
      [] component = "Scout" ->
            <<HandlerDecl("Scout.on_event", <<"Event">>)>>
      [] component = "Lookout" ->
            <<HandlerDecl("Lookout.on_walk", <<"Walk">>)>>
      [] OTHER -> <<>>

(***************************************************************************)
(* ComponentMeta: the event handler table of a component class.            *)
(***************************************************************************)
\* The functions one declaration contributes to the list of event class cls:
\* one entry per occurrence of cls in its event_classes.
RECURSIVE DeclEntries(_, _, _)
DeclEntries(func, event_classes, cls) ==
    IF event_classes = <<>> THEN <<>>
    ELSE (IF Head(event_classes) = cls THEN <<func>> ELSE <<>>)
         \o DeclEntries(func, Tail(event_classes), cls)

RECURSIVE CollectHandlers(_, _)
CollectHandlers(body, cls) ==
    IF body = <<>> THEN <<>>
    ELSE DeclEntries(Head(body).func, Head(body).event_classes, cls)
         \o CollectHandlers(Tail(body), cls)

\* The keys and lists of the table a sequence of declarations fills.
HandlerTable(decls) ==
    LET keys == UNION {Range(decls[i].event_classes) : i \in 1..Len(decls)}
    IN  [cls \in keys |-> CollectHandlers(decls, cls)]

\* The bodies of the classes named, one after the other.
RECURSIVE BodiesOf(_)
BodiesOf(classes) ==
    IF classes = <<>> THEN <<>>
    ELSE ClassBody(Head(classes)) \o BodiesOf(Tail(classes))

\* Mutant: the table starts from the handlers of the base classes.
ComponentMetaWithBases(bases, body) == HandlerTable(BodiesOf(bases) \o body)

\* ComponentMeta.__new__(meta, name, bases, attrs): event_handlers, a
\* defaultdict(list) keyed by the event classes the handlers of the class's
\* own body name; the bases are passed on to type.__new__ and add nothing.
ComponentMeta(bases, body) == HandlerTable(body)

\* The component classes a class is derived from, Component itself aside.
Bases(component) ==
    IF component = "Lookout" THEN <<"Observer">> ELSE <<>>

\* component.event_handlers[event_class]; a missing key is the empty list.
EventHandlers(component, event_class) ==
    LET table == ComponentMeta(Bases(component), ClassBody(component))
    IN  IF event_class \in DOMAIN table THEN table[event_class] ELSE <<>>

(***************************************************************************)
(* ThingType.                                                              *)
(***************************************************************************)
Layers == {"architecture", "item", "creature"}

\* The (interface, component) pairs ThingType.__init__ walks, in order.
RECURSIVE ImplementedPairs(_)
ImplementedPairs(components) ==
    IF components = <<>> THEN <<>>
    ELSE LET c == Head(components)
             ifaces == ImplementedBy(c)
         IN  [i \in 1..Len(ifaces) |-> [iface |-> ifaces[i], component |-> c]]
             \o ImplementedPairs(Tail(components))

\* The keys of a component map kept as a sequence of (iface, component).
Keys(cmap) == {cmap[i].iface : i \in 1..Len(cmap)}

\* self.components[iface]
ComponentOf(cmap, iface) ==
    cmap[CHOOSE i \in 1..Len(cmap) : cmap[i].iface = iface].component

\* Mutant: a second component for an interface is dropped and construction
\* goes on instead of raising.
RECURSIVE RegisterComponentsNoRaise(_, _)
RegisterComponentsNoRaise(cmap, pairs) ==
    IF pairs = <<>> THEN [raised |-> "none", components |-> cmap]
    ELSE IF Head(pairs).iface = IComponent \/ Head(pairs).iface \in Keys(cmap)
         THEN RegisterComponentsNoRaise(cmap, Tail(pairs))
    ELSE RegisterComponentsNoRaise(Append(cmap, Head(pairs)), Tail(pairs))

\* Mutant: a component is entered once, under the first interface it declares.
RECURSIVE RegisterComponentsOncePerComponent(_, _)
RegisterComponentsOncePerComponent(cmap, pairs) ==
    IF pairs = <<>> THEN [raised |-> "none", components |-> cmap]
    ELSE IF Head(pairs).iface = IComponent
         THEN RegisterComponentsOncePerComponent(cmap, Tail(pairs))
    ELSE IF Head(pairs).iface \in Keys(cmap)
         THEN [raised |-> "TypeError", components |-> cmap]
    ELSE IF \E i \in 1..Len(cmap) : cmap[i].component = Head(pairs).component
         THEN RegisterComponentsOncePerComponent(cmap, Tail(pairs))
    ELSE RegisterComponentsOncePerComponent(Append(cmap, Head(pairs)),
                                            Tail(pairs))

\* Mutant: the marker interface is not skipped.
RECURSIVE RegisterComponentsWithMarker(_, _)
RegisterComponentsWithMarker(cmap, pairs) ==
    IF pairs = <<>> THEN [raised |-> "none", components |-> cmap]
    ELSE IF Head(pairs).iface \in Keys(cmap)
         THEN [raised |-> "TypeError", components |-> cmap]
    ELSE RegisterComponentsWithMarker(Append(cmap, Head(pairs)), Tail(pairs))

\* The body of the loop of ThingType.__init__ over the remaining pairs: skips
\* the marker, raises TypeError on a second component for an interface.
RECURSIVE RegisterComponents(_, _)
RegisterComponents(cmap, pairs) ==
    IF pairs = <<>> THEN [raised |-> "none", components |-> cmap]
    ELSE IF Head(pairs).iface = IComponent
         THEN RegisterComponents(cmap, Tail(pairs))
    ELSE IF Head(pairs).iface \in Keys(cmap)
         THEN [raised |-> "TypeError", components |-> cmap]
    ELSE RegisterComponents(Append(cmap, Head(pairs)), Tail(pairs))

\* ThingType(*components, layer, name, modifiers): the constructed type, or
\* the TypeError raised.
ThingType(components, layer, name, modifiers) ==
    LET r == RegisterComponents(<<>>, ImplementedPairs(components))
    IN  [raised |-> r.raised,
         type |-> [layer |-> layer, name |-> name, modifiers |-> modifiers,
                   components |-> r.components]]

(***************************************************************************)
(* The module-level catalog of ThingTypes: Floor, Player and Armor as the  *)
(* source builds them, and Sentinel, a creature type built with the same   *)
(* constructor, with the Observer component and a type-level health        *)
(* modifier.                                                               *)
(***************************************************************************)
SentinelModifiers == <<Modifier(Health, 5)>>

Creature(components, name, modifiers) ==
    ThingType(<<"Solid", "Combatant", "Container">> \o components,
              "creature", name, modifiers)

Catalog ==
    <<ThingType(<<"Empty">>, "architecture", "dirt", <<>>).type,
      Creature(<<"PlayerIntelligence">>, "you", <<>>).type,
      ThingType(<<"Portable", "Equipment">>, "item", "armor",
                ArmorModifiers).type,
      Creature(<<"Observer">>, "sentinel", SentinelModifiers).type>>

Floor == 1
Player == 2
Armor == 3
Sentinel == 4

\* The Things of the scenario, in the order the world creates them: first a
\* creature, then a tile of floor or a piece of armor.
Roster == <<{Player, Sentinel}, {Floor, Armor}>>

MaxThings == Len(Roster)

(***************************************************************************)
(* State.                                                                  *)
(***************************************************************************)
VARIABLES
    types,      \* the ThingTypes constructed so far
    things,     \* the Things created so far: type, modifiers, component_data
    position,   \* current_map: the tile of each Thing, 0 when not on the map
    immediate,  \* the world's immediate event queue
    deferred,   \* the world's queue of events for later ticks
    last        \* the operation just performed: what it returned, raised
                \* and invoked; "idle" once the caller has taken the result

vars == <<types, things, position, immediate, deferred, last>>

ThingIds == 1..Len(things)

\* Thing.__init__
Thing(type) == [type |-> type, modifiers |-> <<>>, component_data |-> <<>>]

\* The ThingType object a Thing refers to.
TypeOf(ts, thing) == ts[thing.type]

\* The mutable program state a call works on, with the exception it raised.
Ctx == [types |-> types, things |-> things, position |-> position,
        immediate |-> immediate, deferred |-> deferred, raised |-> "none"]

Raise(c, exc) == [c EXCEPT !.raised = exc]

(***************************************************************************)
(* Thing.__conform__ and Thing.add_modifiers.                              *)
(***************************************************************************)
\* Mutant: a missing interface falls back to the type's first component.
ConformFallback(ts, thing_list, e, iface) ==
    LET cmap == TypeOf(ts, thing_list[e]).components
    IN  [raised |-> "none",
         component |-> IF iface \in Keys(cmap) THEN ComponentOf(cmap, iface)
                       ELSE cmap[1].component,
         iface |-> iface, entity |-> e]

\* Thing.__conform__: the adapter component(iface, self), or KeyError.
Conform(ts, thing_list, e, iface) ==
    LET cmap == TypeOf(ts, thing_list[e]).components
    IN  IF iface \in Keys(cmap)
        THEN [raised |-> "none", component |-> ComponentOf(cmap, iface),
              iface |-> iface, entity |-> e]
        ELSE [raised |-> "KeyError", component |-> "", iface |-> iface,
              entity |-> 0]

\* Thing.add_modifiers
AddModifiersTo(c, e, modifiers) ==
    [c EXCEPT !.things[e].modifiers = @ \o modifiers]

(***************************************************************************)
(* ComponentAttribute.                                                     *)
(***************************************************************************)
\* data[attr] = value
Store(data, attr, value) ==
    [a \in DOMAIN data \cup {attr} |-> IF a = attr THEN value ELSE data[a]]

\* The loop of __get__ over self.entity.modifiers.
RECURSIVE ApplyModifiers(_, _, _)
ApplyModifiers(modifiers, attr, value) ==
    IF modifiers = <<>> THEN value
    ELSE ApplyModifiers(Tail(modifiers), attr, Modify(Head(modifiers), attr, value))

\* Mutant: the initializer's result is stored on every read.
AttrInitAlways(c, e, attr) ==
    [c EXCEPT !.things[e].component_data = Store(@, attr, Initializer(attr))]

\* __get__, first half: store the initializer's result when attr is absent.
AttrInit(c, e, attr) ==
    IF attr \notin DOMAIN c.things[e].component_data
    THEN [c EXCEPT !.things[e].component_data = Store(@, attr, Initializer(attr))]
    ELSE c

\* Mutant: the modifiers of the entity's type are applied before its own.
AttrValueWithTypeModifiers(c, e, attr) ==
    ApplyModifiers(TypeOf(c.types, c.things[e]).modifiers \o c.things[e].modifiers,
                   attr, c.things[e].component_data[attr])

\* __get__, second half: the stored value with the entity's modifiers applied.
AttrValue(c, e, attr) ==
    ApplyModifiers(c.things[e].modifiers, attr, c.things[e].component_data[attr])

\* Mutant: the value with the modifiers applied is kept as the stored one.
AttrGetCachesValue(c, e, attr) ==
    LET c1 == AttrInit(c, e, attr)
        value == AttrValue(c1, e, attr)
    IN  [ctx |-> [c1 EXCEPT !.things[e].component_data = Store(@, attr, value)],
         value |-> value,
         initialized |-> attr \notin DOMAIN c.things[e].component_data]

\* ComponentAttribute.__get__: the state afterwards, the value returned, and
\* whether this call ran the initializer.
AttrGet(c, e, attr) ==
    LET c1 == AttrInit(c, e, attr)
    IN  [ctx |-> c1, value |-> AttrValue(c1, e, attr),
         initialized |-> attr \notin DOMAIN c.things[e].component_data]

\* Mutant: the value is kept per type: every Thing of the entity's type gets it.
AttrSetPerType(c, e, attr, value) ==
    [c EXCEPT !.things =
        [f \in 1..Len(c.things) |->
            IF c.things[f].type = c.things[e].type
            THEN [c.things[f] EXCEPT !.component_data = Store(@, attr, value)]
            ELSE c.things[f]]]

\* ComponentAttribute.__set__
AttrSet(c, e, attr, value) ==
    [c EXCEPT !.things[e].component_data = Store(@, attr, value)]

(***************************************************************************)
(* The world's side of a handler: flax.world and the map are not part of   *)
(* the sources at hand and are modelled from the specification.            *)
(***************************************************************************)
\* world.queue_immediate_event(event)
QueueImmediateEvent(c, ev) == [c EXCEPT !.immediate = Append(@, ev)]

\* world.queue_event(event)
QueueEvent(c, ev) == [c EXCEPT !.deferred = Append(@, ev)]

\* world.current_map.remove(entity)
MapRemove(c, e) == [c EXCEPT !.position[e] = 0]

\* world.current_map.move(entity, position)
MapMove(c, e, pos) == [c EXCEPT !.position[e] = pos]

(***************************************************************************)
(* Event handlers.  Each takes the state, the entity the component is      *)
(* bound to and the event, and gives the state and the event afterwards.   *)
(***************************************************************************)
Handled(c, ev) == [ctx |-> c, event |-> ev]

\* event.cancel()
Cancel(ev) == [ev EXCEPT !.cancelled = TRUE]

\* Solid.blocks
SolidBlocks(actor) == TRUE

\* Empty.blocks
EmptyBlocks(actor) == FALSE

\* component.blocks(actor) of an IPhysics component.
Blocks(component, actor) ==
    CASE component = "Solid" -> SolidBlocks(actor)
      [] component = "Empty" -> EmptyBlocks(actor)

\* Mutant: the solid thing lets the actor step onto it.
SolidHandleWalkLetsPass(c, e, ev) ==
    [ctx |-> MapMove(c, ev.actor, c.position[ev.target]), event |-> ev]

\* Solid.handle_walk
SolidHandleWalk(c, e, ev) == Handled(c, Cancel(ev))

\* Mutant: the empty thing is moved to the actor instead.
EmptyHandleWalkMovesTarget(c, e, ev) ==
    [ctx |-> MapMove(c, ev.target, c.position[ev.actor]), event |-> ev]

\* Empty.handle_walk
EmptyHandleWalk(c, e, ev) ==
    Handled(MapMove(c, ev.actor, c.position[ev.target]), ev)

\* Mutant: an entity whose health was already spent does not die again.
CombatantHandleDamageDieOnce(c, e, ev) ==
    LET got == AttrGet(c, e, Health)
        c1 == AttrSet(got.ctx, e, Health, got.value - ev.amount)
        again == AttrGet(c1, e, Health)
    IN  IF again.value <= 0 /\ got.value > 0
        THEN Handled(QueueImmediateEvent(again.ctx, Die(e)), ev)
        ELSE Handled(again.ctx, ev)

\* Mutant: the Die is queued whatever health is left.
CombatantHandleDamageAlwaysDie(c, e, ev) ==
    LET got == AttrGet(c, e, Health)
        c1 == AttrSet(got.ctx, e, Health, got.value - ev.amount)
        again == AttrGet(c1, e, Health)
    IN  [ctx |-> QueueImmediateEvent(again.ctx, Die(e)), event |-> ev]

\* Mutant: the Die is queued for a later tick with world.queue_event.
CombatantHandleDamageDeferDie(c, e, ev) ==
    LET got == AttrGet(c, e, Health)
        c1 == AttrSet(got.ctx, e, Health, got.value - ev.amount)
        again == AttrGet(c1, e, Health)
    IN  IF again.value <= 0
        THEN [ctx |-> QueueEvent(again.ctx, Die(e)), event |-> ev]
        ELSE [ctx |-> again.ctx, event |-> ev]

\* Combatant.handle_damage: self.health -= event.amount reads the slot
\* through __get__ and writes the difference through __set__; the test that
\* follows reads the slot again.
CombatantHandleDamage(c, e, ev) ==
    LET got == AttrGet(c, e, Health)
        c1 == AttrSet(got.ctx, e, Health, got.value - ev.amount)
        again == AttrGet(c1, e, Health)
    IN  IF again.value <= 0
        THEN Handled(QueueImmediateEvent(again.ctx, Die(e)), ev)
        ELSE Handled(again.ctx, ev)

\* Mutant: the Damage is directed against the attacker.
CombatantHandleAttackOnActor(c, e, ev) ==
    [ctx |-> QueueImmediateEvent(c, Damage(ev.actor, AttackDamage)),
     event |-> ev]

\* Combatant.handle_attack
CombatantHandleAttack(c, e, ev) ==
    Handled(QueueImmediateEvent(c, Damage(e, AttackDamage)), ev)

\* Mutant: the dying entity strikes itself once more.
CombatantHandleDeathStrikesBack(c, e, ev) ==
    Handled(QueueImmediateEvent(MapRemove(c, e), Event("MeleeAttack", e, e, 0)),
            ev)

\* Combatant.handle_death
CombatantHandleDeath(c, e, ev) == Handled(MapRemove(c, e), ev)

\* Mutant: the actor's container is looked up before the item leaves the map.
PortableHandlePickedUpLooksUpFirst(c, e, ev) ==
    IF TypeOf(c.types, c.things[e]).layer # "item"
    THEN [ctx |-> Raise(c, "AssertionError"), event |-> ev]
    ELSE LET adapted == Conform(c.types, c.things, ev.actor, "IContainer")
         IN  IF adapted.raised # "none"
             THEN [ctx |-> Raise(c, adapted.raised), event |-> ev]
             ELSE LET c1 == MapRemove(c, e)
                      got == AttrGet(c1, ev.actor, Inventory)
                  IN  [ctx |-> AttrSet(got.ctx, ev.actor, Inventory,
                                       Append(got.value, e)),
                       event |-> ev]

\* Mutant: the item joins the inventory but is left on the map.
PortableHandlePickedUpLeavesOnMap(c, e, ev) ==
    IF TypeOf(c.types, c.things[e]).layer # "item"
    THEN [ctx |-> Raise(c, "AssertionError"), event |-> ev]
    ELSE LET adapted == Conform(c.types, c.things, ev.actor, "IContainer")
         IN  IF adapted.raised # "none"
             THEN [ctx |-> Raise(c, adapted.raised), event |-> ev]
             ELSE LET got == AttrGet(c, ev.actor, Inventory)
                  IN  [ctx |-> AttrSet(got.ctx, ev.actor, Inventory,
                                       Append(got.value, e)),
                       event |-> ev]

\* Portable.handle_picked_up
PortableHandlePickedUp(c, e, ev) ==
    IF TypeOf(c.types, c.things[e]).layer # "item"
    THEN Handled(Raise(c, "AssertionError"), ev)
    ELSE LET c1 == MapRemove(c, e)
             adapted == Conform(c1.types, c1.things, ev.actor, "IContainer")
         IN  IF adapted.raised # "none"
             THEN Handled(Raise(c1, adapted.raised), ev)
             ELSE LET got == AttrGet(c1, ev.actor, Inventory)
                  IN  Handled(AttrSet(got.ctx, ev.actor, Inventory,
                                      Append(got.value, e)), ev)

\* Mutant: the modifiers are appended to the modifiers of the actor's type.
EquipmentHandleEquipOntoType(c, e, ev) ==
    [ctx |-> [c EXCEPT !.types[c.things[ev.actor].type].modifiers =
                          @ \o TypeOf(c.types, c.things[e]).modifiers],
     event |-> ev]

\* Mutant: an item the actor already wears is not put on again.
EquipmentHandleEquipOnce(c, e, ev) ==
    LET granted == TypeOf(c.types, c.things[e]).modifiers
    IN  IF \E i \in 1..Len(granted) :
              granted[i] \in Range(c.things[ev.actor].modifiers)
        THEN [ctx |-> c, event |-> ev]
        ELSE [ctx |-> AddModifiersTo(c, ev.actor, granted), event |-> ev]

\* Equipment.handle_equip
EquipmentHandleEquip(c, e, ev) ==
    Handled(AddModifiersTo(c, ev.actor, TypeOf(c.types, c.things[e]).modifiers), ev)

\* Observer.veto cancels; the other Observer and Scout handlers only watch.
ObserverVeto(c, e, ev) == Handled(c, Cancel(ev))

\* handler(thing, event): the call of one collected handler function.
CallHandler(func, c, e, ev) ==
    CASE func = "Solid.handle_walk" -> SolidHandleWalk(c, e, ev)
      [] func = "Empty.handle_walk" -> EmptyHandleWalk(c, e, ev)
      [] func = "Combatant.handle_damage" -> CombatantHandleDamage(c, e, ev)
      [] func = "Combatant.handle_attack" -> CombatantHandleAttack(c, e, ev)
      [] func = "Combatant.handle_death" -> CombatantHandleDeath(c, e, ev)
      [] func = "Portable.handle_picked_up" -> PortableHandlePickedUp(c, e, ev)
      [] func = "Equipment.handle_equip" -> EquipmentHandleEquip(c, e, ev)
      [] func = "Observer.veto" -> ObserverVeto(c, e, ev)
      [] OTHER -> Handled(c, ev)

(***************************************************************************)
(* Dispatch.  A dispatch in progress is the state, the event and the log   *)
(* of the handler calls made so far; an exception ends it where it is      *)
(* raised.                                                                 *)
(***************************************************************************)
\* One entry of the call log: which handler ran, for which interface entry
\* and event class, and whether the event was already cancelled on entry.
CallEntry(iface, component, event_class, func, ev) ==
    [iface |-> iface, component |-> component, event_class |-> event_class,
     func |-> func, cancelled |-> ev.cancelled]

\* Mutant: the loop stops once the event is cancelled.
RECURSIVE RunHandlersAbortOnCancel(_, _, _, _, _, _)
RunHandlersAbortOnCancel(d, handlers, iface, component, event_class, e) ==
    IF handlers = <<>> \/ d.ctx.raised # "none" \/ d.event.cancelled THEN d
    ELSE LET r == CallHandler(Head(handlers), d.ctx, e, d.event)
             entry == CallEntry(iface, component, event_class, Head(handlers),
                                d.event)
         IN  RunHandlersAbortOnCancel([ctx |-> r.ctx, event |-> r.event,
                                       log |-> Append(d.log, entry)],
                                      Tail(handlers), iface, component,
                                      event_class, e)

\* The inner loop of Component.handle_event: the handlers of one event class.
RECURSIVE RunHandlers(_, _, _, _, _, _)
RunHandlers(d, handlers, iface, component, event_class, e) ==
    IF handlers = <<>> \/ d.ctx.raised # "none" THEN d
    ELSE LET r == CallHandler(Head(handlers), d.ctx, e, d.event)
             entry == CallEntry(iface, component, event_class, Head(handlers),
                                d.event)
         IN  RunHandlers([ctx |-> r.ctx, event |-> r.event,
                          log |-> Append(d.log, entry)],
                         Tail(handlers), iface, component, event_class, e)

\* Mutant: only the handlers of the event's concrete class are looked up.
WalkMroConcreteOnly(d, mro, iface, component, e) ==
    IF mro = <<>> \/ d.ctx.raised # "none" THEN d
    ELSE RunHandlers(d, EventHandlers(component, Head(mro)), iface, component,
                     Head(mro), e)

\* The outer loop of Component.handle_event over type(event).__mro__.
RECURSIVE WalkMro(_, _, _, _, _)
WalkMro(d, mro, iface, component, e) ==
    IF mro = <<>> \/ d.ctx.raised # "none" THEN d
    ELSE WalkMro(RunHandlers(d, EventHandlers(component, Head(mro)), iface,
                             component, Head(mro), e),
                 Tail(mro), iface, component, e)

\* Mutant: event_handlers is a plain dict, so an event class without
\* handlers raises KeyError.
ComponentHandleEventPlainDict(d, iface, component, e) ==
    IF \E c \in Range(Mro(d.event.cls)) :
          c \notin DOMAIN ComponentMeta(Bases(component), ClassBody(component))
    THEN [d EXCEPT !.ctx = Raise(@, "KeyError")]
    ELSE WalkMro(d, Mro(d.event.cls), iface, component, e)

\* Component.handle_event
ComponentHandleEvent(d, iface, component, e) ==
    WalkMro(d, Mro(d.event.cls), iface, component, e)

\* The loop of Thing.handle_event over self.type.components.items().
RECURSIVE WalkComponents(_, _, _)
WalkComponents(d, cmap, e) ==
    IF cmap = <<>> \/ d.ctx.raised # "none" THEN d
    ELSE WalkComponents(ComponentHandleEvent(d, Head(cmap).iface,
                                             Head(cmap).component, e),
                        Tail(cmap), e)

\* Thing.handle_event
ThingHandleEvent(c, e, ev) ==
    WalkComponents([ctx |-> c, event |-> ev, log |-> <<>>],
                   TypeOf(c.types, c.things[e]).components, e)

(***************************************************************************)
(* Inputs of the operations.                                               *)
(***************************************************************************)
\* Values external code writes to a numeric slot.
WriteValues == {5}

WritableSlots == {Health}

\* The capabilities external code asks for.
AdaptedInterfaces == {"ICombatant", "IEquipment"}

\* Argument lists of add_modifiers.
ModifierArgs == {<<Modifier(Health, 5)>>}

Creatures == {e \in ThingIds : TypeOf(types, things[e]).layer = "creature"}

\* The events the game loop fires at a Thing; the actor is a creature.
FiredEvents ==
    {Event(cls, a, t, 0) :
        cls \in {"Walk", "MeleeAttack", "PickUp", "Equip"},
        a \in Creatures, t \in ThingIds}
    \cup {Damage(t, AttackDamage) : t \in ThingIds}
    \cup {Die(t) : t \in ThingIds}

\* The state stays within the bounds of the model.
WithinBounds(c) ==
    /\ Len(c.immediate) <= MaxQueue
    /\ Len(c.deferred) <= MaxDeferred
    /\ \A e \in 1..Len(c.things) :
         /\ Len(c.things[e].modifiers) <= MaxMods
         /\ Inventory \in DOMAIN c.things[e].component_data
               => Len(c.things[e].component_data[Inventory]) <= MaxInventory
         /\ Health \in DOMAIN c.things[e].component_data
               => /\ c.things[e].component_data[Health] >= -MaxOverkill
                  /\ c.things[e].component_data[Health] <= MaxHealth

\* The variables take the state a call left behind.
Commit(c) ==
    /\ types' = c.types
    /\ things' = c.things
    /\ position' = c.position
    /\ immediate' = c.immediate
    /\ deferred' = c.deferred

(***************************************************************************)
(* Initial states and operations.                                          *)
(***************************************************************************)
Init ==
    /\ types = Catalog
    /\ things = <<>>
    /\ position = <<>>
    /\ immediate = <<>>
    /\ deferred = <<>>
    /\ last = [op |-> "idle"]

\* Control is with the top-level loop: no call is in progress and the
\* immediate queue is drained.
Idle == last.op = "idle" /\ immediate = <<>>

\* ThingType.__call__: a new Thing, which the world puts on a tile of its own;
\* the roster says which types the world creates, in which order.
Create(roster, t) ==
    /\ Idle
    /\ Len(things) < Len(roster)
    /\ t \in roster[Len(things) + 1]
    /\ things' = Append(things, Thing(t))
    /\ position' = Append(position, Len(things) + 1)
    /\ last' = [op |-> "new", entity |-> Len(things) + 1]
    /\ UNCHANGED <<types, immediate, deferred>>

NewThing(t) == Create(Roster, t)

\* iface(entity): capability lookup by external code.
Adapt(e, iface) ==
    /\ Idle
    /\ last' = [op |-> "adapt", entity |-> e, iface |-> iface,
                adapted |-> Conform(types, things, e, iface)]
    /\ UNCHANGED <<types, things, position, immediate, deferred>>

\* iface(entity).attr: external code reads a slot.
ReadSlot(e, attr) ==
    LET adapted == Conform(types, things, e, SlotIface(attr))
    IN  /\ Idle
        /\ IF adapted.raised # "none"
           THEN /\ last' = [op |-> "get", entity |-> e, attr |-> attr,
                            raised |-> adapted.raised]
                /\ UNCHANGED <<types, things, position, immediate, deferred>>
           ELSE LET got == AttrGet(Ctx, e, attr)
                IN  /\ Commit(got.ctx)
                    /\ last' = [op |-> "get", entity |-> e, attr |-> attr,
                                raised |-> "none", value |-> got.value,
                                initialized |-> got.initialized]

\* iface(entity).attr = value: external code writes a slot.
WriteSlot(e, attr, value) ==
    LET adapted == Conform(types, things, e, SlotIface(attr))
    IN  /\ Idle
        /\ IF adapted.raised # "none"
           THEN /\ last' = [op |-> "set", entity |-> e, attr |-> attr,
                            raised |-> adapted.raised]
                /\ UNCHANGED <<types, things, position, immediate, deferred>>
           ELSE /\ Commit(AttrSet(Ctx, e, attr, value))
                /\ last' = [op |-> "set", entity |-> e, attr |-> attr,
                            raised |-> "none", value |-> value]

\* entity.add_modifiers(*modifiers)
AddModifiers(e, modifiers) ==
    LET c == AddModifiersTo(Ctx, e, modifiers)
    IN  /\ Idle
        /\ WithinBounds(c)
        /\ Commit(c)
        /\ last' = [op |-> "add_modifiers", entity |-> e,
                    modifiers |-> modifiers]

\* The outcome of a dispatch becomes the state.
Dispatched(d, e, ev, op) ==
    /\ WithinBounds(d.ctx)
    /\ Commit(d.ctx)
    /\ last' = [op |-> op, entity |-> e, sent |-> ev, event |-> d.event,
                raised |-> d.ctx.raised, log |-> d.log]

\* The game loop fires an event at its target once the immediate queue of the
\* previous one is drained.
HandleEvent(ev) ==
    /\ Idle
    /\ Dispatched(ThingHandleEvent(Ctx, ev.target, ev), ev.target, ev, "fire")

\* The world drains the immediate queue: the oldest event goes to its target.
DrainImmediate ==
    /\ immediate # <<>>
    /\ LET ev == Head(immediate)
           c == [Ctx EXCEPT !.immediate = Tail(immediate)]
       IN  Dispatched(ThingHandleEvent(c, ev.target, ev), ev.target, ev, "drain")

\* The call returns: the caller takes the result and control is back with
\* the top-level loop.
Return ==
    /\ last.op # "idle"
    /\ immediate = <<>>
    /\ last' = [op |-> "idle"]
    /\ UNCHANGED <<types, things, position, immediate, deferred>>

Next ==
    \/ \E t \in 1..Len(types) : NewThing(t)
    \/ \E e \in ThingIds, iface \in AdaptedInterfaces : Adapt(e, iface)
    \/ \E e \in ThingIds, attr \in Slots : ReadSlot(e, attr)
    \/ \E e \in ThingIds, attr \in WritableSlots, v \in WriteValues :
          WriteSlot(e, attr, v)
    \/ \E e \in Creatures, m \in ModifierArgs : AddModifiers(e, m)
    \/ \E ev \in FiredEvents : HandleEvent(ev)
    \/ DrainImmediate
    \/ Return

Spec == Init /\ [][Next]_vars

(***************************************************************************)
(* Construction of ThingTypes from arbitrary component lists.              *)
(***************************************************************************)
\* The component lists given to the constructor.
ComponentLists ==
    UNION {[1..n -> Components] : n \in 0..MaxComponents}

InitBuild ==
    /\ types = <<>>
    /\ things = <<>>
    /\ position = <<>>
    /\ immediate = <<>>
    /\ deferred = <<>>
    /\ last = [op |-> "idle"]

\* ThingType(*components, layer=..., name=..., modifiers=...) at content
\* definition time: the new type joins the catalog unless __init__ raises.
\* The constructor reads no state, so one construction per behaviour shows
\* all it can do.
NewThingType(components, layer, modifiers) ==
    LET r == ThingType(components, layer, "thing", modifiers)
    IN  /\ Idle
        /\ types = <<>>
        /\ types' = IF r.raised = "none" THEN Append(types, r.type) ELSE types
        /\ last' = [op |-> "ThingType", components |-> components,
                    raised |-> r.raised,
                    result |-> IF r.raised = "none" THEN Len(types) + 1 ELSE 0]
        /\ UNCHANGED <<things, position, immediate, deferred>>

NextBuild ==
    \/ \E components \in ComponentLists, layer \in Layers,
          modifiers \in {<<>>, ArmorModifiers} :
          NewThingType(components, layer, modifiers)
    \/ Return

SpecBuild == InitBuild /\ [][NextBuild]_vars

(***************************************************************************)
(* Properties of ThingType construction.                                   *)
(***************************************************************************)
\* The capabilities a component class claims, the marker aside.
Capabilities(component) == Range(ImplementedBy(component)) \ {IComponent}

\* No two components of the list claim the same capability.
PairwiseDisjoint(components) ==
    \A i, j \in 1..Len(components) :
        i # j => Capabilities(components[i]) \cap Capabilities(components[j]) = {}

\* C4: building a ThingType from a list in which two components implement
\* the same capability raises the duplicate-capability error (TypeError) and
\* yields no ThingType: the catalog is as it was.
C4_DuplicateCapabilityFails ==
    [][(last'.op = "ThingType" /\ last.op = "idle"
        /\ ~PairwiseDisjoint(last'.components))
       => (last'.raised = "TypeError" /\ last'.result = 0 /\ types' = types)]_vars

\* A list with a duplicate capability has been given to the constructor and
\* refused.
C4_Witness ==
    /\ last.op = "ThingType"
    /\ last.components = <<"Solid", "Empty">>
    /\ last.raised = "TypeError"

\* C5: for a list of components with pairwise disjoint capability sets the
\* construction succeeds, and the component map has exactly one entry per
\* supplied capability, each mapped to the component of the list that
\* implements it, and no entry for the marker.
C5_DisjointConstructionSucceeds ==
    (last.op = "ThingType" /\ PairwiseDisjoint(last.components))
    => /\ last.raised = "none"
       /\ last.result \in 1..Len(types)
       /\ LET cmap == types[last.result].components
              supplied == UNION {Capabilities(last.components[i]) :
                                   i \in 1..Len(last.components)}
          IN  /\ Keys(cmap) = supplied
              /\ Len(cmap) = Cardinality(supplied)
              /\ IComponent \notin Keys(cmap)
              /\ \A k \in 1..Len(cmap) :
                    /\ cmap[k].component \in Range(last.components)
                    /\ cmap[k].iface \in Capabilities(cmap[k].component)

\* A type has been built from two components, one of which claims two
\* capabilities.
C5_Witness ==
    /\ last.op = "ThingType"
    /\ last.components = <<"Solid", "Scout">>
    /\ last.raised = "none"
    /\ Len(types[last.result].components) = 3

(***************************************************************************)
(* Properties of dispatch.                                                 *)
(***************************************************************************)
\* The last operation was a dispatch (fired by the game loop or drained from
\* the immediate queue).
IsDispatch(l) == l.op \in {"fire", "drain", "advance"}

\* The functions a class body registers for event class cls, in declaration
\* order, read off the declarations.
Registered(component, cls) ==
    LET body == ClassBody(component)
        named == SelectSeq(body, LAMBDA decl : cls \in Range(decl.event_classes))
    IN  [i \in 1..Len(named) |-> named[i].func]

\* Position of x in the sequence s (0 when absent).
IndexOf(s, x) ==
    IF x \in Range(s) THEN CHOOSE i \in 1..Len(s) : s[i] = x ELSE 0

\* Where a logged call stands in the dispatch order: the place of its
\* interface entry in the component map, of its event class in the mro, and
\* of its function among the handlers registered for that class.
Rank(cmap, mro, entry) ==
    <<IndexOf([k \in 1..Len(cmap) |-> cmap[k].iface], entry.iface),
      IndexOf(mro, entry.event_class),
      IndexOf(Registered(entry.component, entry.event_class), entry.func)>>

Before(r1, r2) ==
    \/ r1[1] < r2[1]
    \/ r1[1] = r2[1] /\ r1[2] < r2[2]
    \/ r1[1] = r2[1] /\ r1[2] = r2[2] /\ r1[3] < r2[3]

\* Every handler registered by a component of the map for a class of the mro.
Due(cmap, mro) ==
    UNION {{[iface |-> cmap[k].iface, component |-> cmap[k].component,
             event_class |-> mro[i], func |-> f] :
                f \in Range(Registered(cmap[k].component, mro[i]))} :
           k \in 1..Len(cmap), i \in 1..Len(mro)}

\* A log entry without its cancelled flag.
Call(entry) ==
    [iface |-> entry.iface, component |-> entry.component,
     event_class |-> entry.event_class, func |-> entry.func]

\* C1: a dispatch that raises nothing calls exactly the handlers registered
\* by the components of the entity's type for the classes of the event's
\* mro, each once, ordered by component map entry, then from the concrete
\* class to its least specific ancestor, then by registration order.
C1_DispatchWalksComponentsAndHierarchy ==
    (IsDispatch(last) /\ last.raised = "none")
    => LET cmap == TypeOf(types, things[last.entity]).components
           mro == Mro(last.sent.cls)
           log == last.log
       IN  /\ {Call(log[n]) : n \in 1..Len(log)} = Due(cmap, mro)
           /\ Len(log) = Cardinality(Due(cmap, mro))
           /\ \A n, m \in 1..Len(log) :
                 n < m => Before(Rank(cmap, mro, log[n]), Rank(cmap, mro, log[m]))

\* A MeleeAttack dispatched to a Sentinel has run the Observer's handler for
\* the concrete class, then the one for Attack, then the one for Event,
\* although the class body declares them in the opposite order.
C1_Witness ==
    /\ IsDispatch(last)
    /\ last.sent.cls = "MeleeAttack"
    /\ last.raised = "none"
    /\ \E n, m, k \in 1..Len(last.log) :
          /\ n < m /\ m < k
          /\ last.log[n].func = "Observer.on_melee"
          /\ last.log[m].func = "Observer.on_attack"
          /\ last.log[m].event_class = "Attack"
          /\ last.log[k].func = "Observer.on_event"
          /\ last.log[k].event_class = "Event"
    /\ \E n \in 1..Len(last.log) : last.log[n].func = "Combatant.handle_attack"

\* The log entry n is the call that cancelled the event: the flag was clear
\* when it was entered and set when it returned.
Cancels(l, n) ==
    /\ ~l.log[n].cancelled
    /\ IF n < Len(l.log) THEN l.log[n + 1].cancelled ELSE l.event.cancelled

\* C9: when a handler cancels the event, the dispatch goes on: every handler
\* due after it, in the same component and in every later component, is
\* still called, and is entered with the flag set.
C9_CancellationIsAdvisory ==
    (IsDispatch(last) /\ last.raised = "none")
    => LET cmap == TypeOf(types, things[last.entity]).components
           mro == Mro(last.sent.cls)
           log == last.log
       IN  \A n \in 1..Len(log) :
             Cancels(last, n)
             => /\ last.event.cancelled
                /\ \A x \in Due(cmap, mro) :
                      Before(Rank(cmap, mro, log[n]), Rank(cmap, mro, x))
                      => \E m \in (n + 1)..Len(log) :
                            Call(log[m]) = x /\ log[m].cancelled

\* A Walk dispatched to a Sentinel was cancelled by Solid.handle_walk, the
\* first handler called; the Observer's three handlers for it ran afterwards.
C9_Witness ==
    /\ IsDispatch(last)
    /\ last.sent.cls = "Walk"
    /\ Len(last.log) = 4
    /\ last.log[1].func = "Solid.handle_walk"
    /\ Cancels(last, 1)
    /\ last.log[2].func = "Observer.veto"
    /\ last.log[3].func = "Observer.after_veto"
    /\ last.log[4].func = "Observer.on_event"
    /\ last.log[4].iface = "IObserver"

\* No component of the entity's type registers a handler for any class of
\* the event's mro.
NoHandlers(e, cls) ==
    LET cmap == TypeOf(types, things[e]).components
    IN  \A k \in 1..Len(cmap), c \in Range(Mro(cls)) :
            Registered(cmap[k].component, c) = <<>>

\* C10: dispatching an event for which no component of the target has a
\* handler raises nothing, calls nothing and changes nothing: the Things'
\* attribute data and modifiers, the map, the event and the queue (but for
\* the world having taken the drained event off it) are as before, so a
\* second dispatch finds the same state.
C10_NoHandlerDispatchIsNoOp ==
    [][(IsDispatch(last') /\ NoHandlers(last'.entity, last'.sent.cls))
       => /\ last'.raised = "none"
          /\ last'.log = <<>>
          /\ last'.event = last'.sent
          /\ things' = things
          /\ position' = position
          /\ types' = types
          /\ immediate' = IF last'.op = "drain" THEN Tail(immediate)
                           ELSE immediate]_vars

\* An Equip event was fired at a Player whose health slot already holds a
\* value; no component of Player handles Equip.
C10_Witness ==
    /\ last.op = "fire"
    /\ last.sent.cls = "Equip"
    /\ things[last.entity].type = Player
    /\ Health \in DOMAIN things[last.entity].component_data
    /\ things[last.entity].modifiers # <<>>
    /\ last.log = <<>>

(***************************************************************************)
(* Properties of capability lookup and attribute slots.                    *)
(***************************************************************************)
\* The entity's type has a component for the interface.
Implements(e, iface) ==
    \E k \in 1..Len(TypeOf(types, things[e]).components) :
        TypeOf(types, things[e]).components[k].iface = iface

\* The sum of the add values of the modifiers of the list that target attr.
RECURSIVE SumMatching(_, _)
SumMatching(modifiers, attr) ==
    IF modifiers = <<>> THEN 0
    ELSE (IF Head(modifiers).stat = attr THEN Head(modifiers).add ELSE 0)
         + SumMatching(Tail(modifiers), attr)

NumericSlots == {Health, Strength}

\* The last operation read a numeric slot and raised nothing.
ReadNumeric(l) ==
    l.op = "get" /\ l.raised = "none" /\ l.attr \in NumericSlots

C3_StoredValueIsRaw ==
    [][\A e \in 1..Len(things) :
         \A a \in NumericSlots \cap DOMAIN things'[e].component_data :
           LET old == IF a \in DOMAIN things[e].component_data
                      THEN things[e].component_data[a] ELSE Initializer(a)
               new == things'[e].component_data[a]
           IN  \/ new = old
               \/ /\ last'.op = "set" /\ last'.entity = e /\ last'.attr = a
                  /\ new = last'.value
               \/ /\ IsDispatch(last') /\ last'.sent.cls = "Damage"
                  /\ last'.entity = e /\ a = Health
                  /\ new = old - last'.sent.amount]_vars

\* C6: a capability lookup returns the component registered for the
\* interface in the entity's type, bound to the entity; when the type has no
\* component for it the lookup raises KeyError; either way the Things are
\* left as they were.
C6_CapabilityLookup ==
    [][last'.op = "adapt"
       => LET e == last'.entity
              cmap == TypeOf(types, things[e]).components
              got == last'.adapted
          IN  /\ Implements(e, last'.iface)
                   => /\ got.raised = "none"
                      /\ got.entity = e
                      /\ got.iface = last'.iface
                      /\ \E k \in 1..Len(cmap) :
                            /\ cmap[k].iface = last'.iface
                            /\ cmap[k].component = got.component
              /\ ~Implements(e, last'.iface) => got.raised = "KeyError"
              /\ things' = things]_vars

\* A creature that holds attribute data and a modifier was asked for the
\* equipment capability, which its type does not implement.
C6_Witness ==
    /\ last.op = "adapt"
    /\ last.iface = "IEquipment"
    /\ last.adapted.raised = "KeyError"
    /\ things[last.entity].component_data # <<>>
    /\ things[last.entity].modifiers # <<>>

\* C7: reading a slot of a capability the entity's type implements never
\* fails; the initializer runs exactly when the slot holds no value yet, and
\* then its default is stored and returned (with the entity's modifiers
\* applied); a read of a slot that holds a value leaves the stored data as
\* they are; and a slot that holds a value holds one ever after, so the
\* initializer runs at most once per entity and slot.
C7_LazyDefaultOnce ==
    [][/\ last'.op = "get" /\ Implements(last'.entity, SlotIface(last'.attr))
          => LET e == last'.entity
                 a == last'.attr
                 absent == a \notin DOMAIN things[e].component_data
             IN  /\ last'.raised = "none"
                 /\ last'.initialized = absent
                 /\ absent
                      => /\ things'[e].component_data[a] = Initializer(a)
                         /\ IF a = Inventory THEN last'.value = <<>>
                            ELSE last'.value = Initializer(a)
                                   + SumMatching(things[e].modifiers, a)
                 /\ ~absent
                      => things'[e].component_data = things[e].component_data
       /\ \A e \in 1..Len(things) :
             DOMAIN things[e].component_data
                \subseteq DOMAIN things'[e].component_data]_vars

\* The health of an entity without modifiers was read for the first time and
\* the default came back.
C7_Witness ==
    /\ last.op = "get"
    /\ last.raised = "none"
    /\ last.attr = Health
    /\ last.initialized
    /\ things[last.entity].modifiers = <<>>
    /\ last.value = HealthDefault

Stored(thing, attr) ==
    IF attr \in DOMAIN thing.component_data THEN thing.component_data[attr]
    ELSE Initializer(attr)

\* The immediate queue a dispatch starts from: a drain has taken its head.
QueueBefore(l) == IF l.op = "drain" THEN Tail(immediate) ELSE immediate

\* The step dispatches an event of class cls to an entity that implements
\* iface, and nothing is raised.
Delivers(l, cls, iface) ==
    /\ IsDispatch(l)
    /\ l.sent.cls = cls
    /\ l.raised = "none"
    /\ Implements(l.entity, iface)

\* C11 as stated: a Damage event lowers the stored health of a Combatant by
\* exactly its amount, and a Die for the entity joins the immediate queue if
\* and only if the resulting health is zero or below.
C11_DamageLowersStoredHealthByAmount ==
    [][Delivers(last', "Damage", "ICombatant")
       => LET e == last'.entity
              new == things'[e].component_data[Health]
          IN  /\ new = Stored(things[e], Health) - last'.sent.amount
              /\ immediate' = IF new <= 0
                              THEN Append(QueueBefore(last'), Die(e))
                              ELSE QueueBefore(last')]_vars

(***************************************************************************)
(* The world's turn loop with its two queues.  Actors queue their actions  *)
(* for a later tick with world.queue_event; world.advance takes the oldest *)
(* of them once the immediate queue of the previous one is drained.        *)
(***************************************************************************)
\* The Things of the turn loop's map: two creatures and a tile of floor.
Arena == <<{Player}, {Sentinel}, {Floor}>>

\* The world populates the map.
Populate(t) == Create(Arena, t)

\* The actions an actor queues: GenericAI.act attacks another creature or
\* walks onto another Thing's tile.
QueuedEvents ==
    {ev \in {Event("MeleeAttack", a, t, 0) : a \in Creatures, t \in Creatures}
            \cup {Event("Walk", a, t, 0) : a \in Creatures, t \in ThingIds} :
        ev.actor # ev.target}

\* IActor.act(world): the actor queues its action for a later tick.
Act(ev) ==
    LET c == QueueEvent(Ctx, ev)
    IN  /\ Idle
        /\ WithinBounds(c)
        /\ Commit(c)
        /\ last' = [op |-> "act", entity |-> ev.actor, sent |-> ev]

\* IPhysics(entity).blocks(actor): the query of whoever plans a move.
QueryBlocks(e, actor) ==
    LET adapted == Conform(types, things, e, "IPhysics")
    IN  /\ Idle
        /\ last' = IF adapted.raised # "none"
                   THEN [op |-> "blocks", entity |-> e, actor |-> actor,
                         raised |-> adapted.raised]
                   ELSE [op |-> "blocks", entity |-> e, actor |-> actor,
                         raised |-> "none",
                         value |-> Blocks(adapted.component, actor)]
        /\ UNCHANGED <<types, things, position, immediate, deferred>>

\* world.advance(): the oldest waiting event goes to its target.
Advance ==
    /\ Idle
    /\ deferred # <<>>
    /\ LET ev == Head(deferred)
           c == [Ctx EXCEPT !.deferred = Tail(deferred)]
       IN  Dispatched(ThingHandleEvent(c, ev.target, ev), ev.target, ev,
                      "advance")

NextWorld ==
    \/ \E t \in 1..Len(types) : Populate(t)
    \/ \E ev \in QueuedEvents : Act(ev)
    \/ \E e \in ThingIds, actor \in Creatures : QueryBlocks(e, actor)
    \/ Advance
    \/ DrainImmediate
    \/ Return

SpecWorld == Init /\ [][NextWorld]_vars

\* C12: the follow-up events of handlers go on the immediate queue and never
\* on the queue for later ticks; control returns to the turn loop only once
\* the immediate queue is drained, and the turn loop takes a waiting event
\* only then: every Damage and Die of a chain is dispatched before any event
\* that was waiting when the chain began.
C12_ImmediateQueueDrainedFirst ==
    [][/\ IsDispatch(last')
          => /\ deferred' = IF last'.op = "advance" THEN Tail(deferred)
                            ELSE deferred
             /\ \A i \in 1..Len(immediate') :
                    immediate'[i].cls \in {"Damage", "Die"}
       /\ last'.op \in {"advance", "act", "new"} => immediate = <<>>
       /\ last'.op = "idle" => immediate' = <<>>
       /\ immediate # <<>> => last'.op = "drain"
       /\ \A i \in 1..Len(deferred') :
              deferred'[i].cls \notin {"Damage", "Die"}]_vars

\* The Die that ends a chain MeleeAttack, Damage, Die was dispatched and took
\* the entity off the map while another event was waiting for a later tick.
C12_Witness ==
    /\ last.op = "drain"
    /\ last.sent.cls = "Die"
    /\ last.raised = "none"
    /\ position[last.entity] = 0
    /\ deferred # <<>>
    /\ immediate = <<>>

\* C13: a MeleeAttack delivered to a Combatant puts exactly one event on the
\* immediate queue, a Damage against the target of the MeleeAttack.
C13_MeleeAttackQueuesOneDamage ==
    [][Delivers(last', "MeleeAttack", "ICombatant")
       => /\ Len(immediate') = Len(QueueBefore(last')) + 1
          /\ SubSeq(immediate', 1, Len(QueueBefore(last'))) = QueueBefore(last')
          /\ immediate'[Len(immediate')].cls = "Damage"
          /\ immediate'[Len(immediate')].target = last'.sent.target]_vars

\* One creature attacked another and the Damage against the attacked one is
\* the only event on the immediate queue.
C13_Witness ==
    /\ Delivers(last, "MeleeAttack", "ICombatant")
    /\ last.sent.actor # last.sent.target
    /\ Len(immediate) = 1
    /\ immediate[1].cls = "Damage"
    /\ immediate[1].target = last.sent.target

\* C14: a Die drained from the immediate queue and delivered to a Combatant
\* takes the entity off the map; and a Combatant leaves the map only so, with
\* its health at zero or below: while its health has stayed above zero it is
\* never removed.  (In the turn loop health never rises, so health above zero
\* now is health that never reached zero.)
C14_DieRemovesOnlyTheDead ==
    [][/\ (Delivers(last', "Die", "ICombatant") /\ last'.op = "drain")
          => position'[last'.entity] = 0
       /\ \A e \in 1..Len(things) :
            (Implements(e, "ICombatant") /\ position[e] # 0 /\ position'[e] = 0)
            => /\ last'.op = "drain"
               /\ last'.sent.cls = "Die"
               /\ last'.entity = e
               /\ Stored(things[e], Health) <= 0
       /\ \A e \in 1..Len(things) :
            Stored(things'[e], Health) <= Stored(things[e], Health)]_vars

\* A drained Die took a creature at health zero off the map while a creature
\* that was hit once, and has health left, is still on it.
C14_Witness ==
    /\ Delivers(last, "Die", "ICombatant")
    /\ last.op = "drain"
    /\ position[last.entity] = 0
    /\ Stored(things[last.entity], Health) = 0
    /\ \E f \in ThingIds :
          /\ Implements(f, "ICombatant")
          /\ Stored(things[f], Health) = HealthDefault - AttackDamage
          /\ position[f] # 0

\* The component the entity's type registers for IPhysics ("" when none).
PhysicsOf(e) ==
    LET cmap == TypeOf(types, things[e]).components
    IN  IF \E k \in 1..Len(cmap) : cmap[k].iface = "IPhysics"
        THEN cmap[CHOOSE k \in 1..Len(cmap) : cmap[k].iface = "IPhysics"].component
        ELSE ""

\* C15: a Walk delivered to an entity whose physics is Solid ends cancelled
\* and leaves the mover where it was; and a Solid answers the blocks query
\* with true for every actor.
C15_SolidCancelsWalk ==
    [][/\ (Delivers(last', "Walk", "IPhysics") /\ PhysicsOf(last'.entity) = "Solid")
          => /\ last'.event.cancelled
             /\ position'[last'.sent.actor] = position[last'.sent.actor]
       /\ (last'.op = "blocks" /\ PhysicsOf(last'.entity) = "Solid")
          => /\ last'.raised = "none"
             /\ last'.value = TRUE]_vars

\* A creature walked into the player, whose only Walk handler is that of
\* Solid: the event is cancelled and the two are still on different tiles.
C15_Witness ==
    /\ Delivers(last, "Walk", "IPhysics")
    /\ things[last.entity].type = Player
    /\ last.sent.actor # last.entity
    /\ last.event.cancelled
    /\ position[last.sent.actor] # 0
    /\ position[last.sent.actor] # position[last.entity]

\* C16: a Walk delivered to an entity whose physics is Empty moves the actor
\* to the tile of the target, the Empty handler does not cancel the event,
\* and an Empty answers the blocks query with false for every actor.
C16_EmptyMovesActor ==
    [][/\ (Delivers(last', "Walk", "IPhysics") /\ PhysicsOf(last'.entity) = "Empty")
          => /\ position'[last'.sent.actor] = position[last'.sent.target]
             /\ position'[last'.sent.target] = position[last'.sent.target]
             /\ \A n \in 1..Len(last'.log) :
                    last'.log[n].func = "Empty.handle_walk" => ~Cancels(last', n)
             /\ ~last'.event.cancelled
       /\ (last'.op = "blocks" /\ PhysicsOf(last'.entity) = "Empty")
          => /\ last'.raised = "none"
             /\ last'.value = FALSE]_vars

\* A creature walked onto the floor and now stands on the floor's tile, off
\* the tile it was created on.
C16_Witness ==
    /\ Delivers(last, "Walk", "IPhysics")
    /\ PhysicsOf(last.entity) = "Empty"
    /\ position[last.sent.actor] = position[last.entity]
    /\ position[last.sent.actor] # last.sent.actor
    /\ ~last.event.cancelled

\* How many entries of the modifier list are the modifier mod.
Copies(modifiers, mod) ==
    Cardinality({i \in 1..Len(modifiers) : modifiers[i] = mod})

\* C17: every Equip delivered to an Equipment item appends the modifiers of
\* the item's type to the end of the actor's runtime list, whatever the list
\* already holds and whatever the item's own runtime list is; and a read of
\* the wearer's strength is the stored strength plus 3 for every copy of the
\* Armor modifier the wearer carries.
C17_EquipAppendsTypeModifiers ==
    [][/\ Delivers(last', "Equip", "IEquipment")
          => LET item == last'.entity
                 actor == last'.sent.actor
             IN  /\ things'[actor].modifiers
                      = things[actor].modifiers
                        \o TypeOf(types, things[item]).modifiers
                 /\ things'[item].modifiers = things[item].modifiers
                 /\ types' = types
       /\ (ReadNumeric(last') /\ last'.attr = Strength)
          => last'.value
               = Stored(things[last'.entity], Strength)
                 + ArmorStrength
                   * Copies(things[last'.entity].modifiers, ArmorModifiers[1])]_vars

\* The wearer put the same armor on for the second time and carries two
\* copies of its modifier.
C17_Witness ==
    /\ Delivers(last, "Equip", "IEquipment")
    /\ things[last.entity].type = Armor
    /\ things[last.sent.actor].modifiers = ArmorModifiers \o ArmorModifiers

\* The strength of a wearer of one armor was read: 3 above the default.
C17_ReadWitness ==
    /\ ReadNumeric(last)
    /\ last.attr = Strength
    /\ Copies(things[last.entity].modifiers, ArmorModifiers[1]) = 1
    /\ last.value = StrengthDefault + ArmorStrength

C19_TypesNeverChange ==
    [][/\ types' = types
       /\ types' = Catalog
       /\ \A t \in 1..Len(types') :
            \A i, j \in 1..Len(types'[t].components) :
               types'[t].components[i].iface = types'[t].components[j].iface
                  => i = j
       /\ \A e \in 1..Len(things) : things'[e].type = things[e].type]_vars

\* An Equip was delivered to an armor and the wearer carries the modifiers of
\* the armor's type, which are still the ones the type was built with.
C19_Witness ==
    /\ Delivers(last, "Equip", "IEquipment")
    /\ things[last.entity].type = Armor
    /\ things[last.sent.actor].modifiers # <<>>
    /\ TypeOf(types, things[last.entity]).modifiers = ArmorModifiers
    /\ TypeOf(types, things[last.sent.actor]).modifiers
         = Catalog[things[last.sent.actor].type].modifiers

(***************************************************************************)
(* Definition of component classes, and dispatch to an entity whose        *)
(* component is a subclass of another component class.                     *)
(***************************************************************************)
\* Most handlers in a class body.
MaxHandlers == 2

\* The functions and event classes class bodies are written with.
BodyFuncs == {"f", "g", "h"}
BodyEventClasses == {"Event", "Walk"}

\* The event classes of one function: one @handler decorator, or two stacked.
DecoratorLists ==
    [1..1 -> BodyEventClasses] \cup [1..2 -> BodyEventClasses]

\* The handler declarations a class body may hold.
HandlerDecls ==
    {HandlerDecl(func, classes) :
        func \in BodyFuncs, classes \in DecoratorLists}

\* The Handler attributes of a class body, in order; the body is a dict, so
\* no two of them have the same name.
ClassBodies ==
    {body \in UNION {[1..n -> HandlerDecls] : n \in 0..MaxHandlers} :
        \A i, j \in 1..Len(body) : body[i].func = body[j].func => i = j}

\* The base class lists class statements are written with.
BaseLists == {<<>>, <<"Observer">>, <<"Combatant">>}

\* The type of the entity events are dispatched to: its one component is
\* Lookout.
LookoutCatalog == <<ThingType(<<"Lookout">>, "creature", "lookout", <<>>).type>>

InitClasses ==
    /\ types = LookoutCatalog
    /\ things = <<>>
    /\ position = <<>>
    /\ immediate = <<>>
    /\ deferred = <<>>
    /\ last = [op |-> "idle"]

\* class Name(*bases, metaclass=ComponentMeta): the class statement runs
\* ComponentMeta.__new__ on the class body.
DefineComponent(bases, body) ==
    /\ Idle
    /\ last' = [op |-> "class", bases |-> bases, body |-> body,
                event_handlers |-> ComponentMeta(bases, body)]
    /\ UNCHANGED <<types, things, position, immediate, deferred>>

\* The world creates the one entity.
PopulateLookout(t) == Create(<<{1}>>, t)

NextClasses ==
    \/ \E bases \in BaseLists, body \in ClassBodies : DefineComponent(bases, body)
    \/ \E t \in 1..Len(types) : PopulateLookout(t)
    \/ \E ev \in FiredEvents : HandleEvent(ev)
    \/ Return

SpecClasses == InitClasses /\ [][NextClasses]_vars

\* The (function, event class) pairs of a body: declaration by declaration,
\* and for each in the order its event classes were added.
RECURSIVE Declarations(_)
Declarations(body) ==
    IF body = <<>> THEN <<>>
    ELSE [i \in 1..Len(Head(body).event_classes) |->
             [func |-> Head(body).func, cls |-> Head(body).event_classes[i]]]
         \o Declarations(Tail(body))

\* The functions a body declares for cls, in declaration order.
DeclaredFor(body, cls) ==
    LET pairs == SelectSeq(Declarations(body), LAMBDA p : p.cls = cls)
    IN  [i \in 1..Len(pairs) |-> pairs[i].func]

\* The functions a body declares.
FuncsOf(body) == {body[i].func : i \in 1..Len(body)}

\* C20: the handler table of a class lists, under every event class, exactly
\* the functions the class's own body declares for it, in declaration order,
\* and has no other key, whatever the bases; and a dispatch to an entity
\* calls, for a component that is a subclass, handlers of that class's own
\* body only, none of a base class.
C20_HandlerTableFromOwnBodyOnly ==
    [][/\ last'.op = "class"
          => LET table == last'.event_handlers
             IN  /\ \A cls \in DOMAIN table :
                        DeclaredFor(last'.body, cls) # <<>>
                 /\ \A cls \in EventClasses :
                        DeclaredFor(last'.body, cls)
                          = IF cls \in DOMAIN table THEN table[cls] ELSE <<>>
       /\ (IsDispatch(last') /\ last'.raised = "none")
          => \A n \in 1..Len(last'.log) :
                LET component == last'.log[n].component
                IN  /\ last'.log[n].func \in FuncsOf(ClassBody(component))
                    /\ last'.log[n].func
                         \notin FuncsOf(BodiesOf(Bases(component)))]_vars

\* A class with a base that declares handlers was defined, its own body
\* listing one function under two event classes and two functions under one.
C20_Witness ==
    /\ last.op = "class"
    /\ last.bases = <<"Observer">>
    /\ last.body = <<HandlerDecl("f", <<"Walk", "Event">>),
                     HandlerDecl("g", <<"Walk">>)>>
    /\ last.event_handlers["Walk"] = <<"f", "g">>
    /\ last.event_handlers["Event"] = <<"f">>
    /\ DOMAIN last.event_handlers = {"Walk", "Event"}

\* A Walk was dispatched to the Lookout entity: its own handler ran, and the
\* event is not cancelled, the veto of the base class not having run.
C20_DispatchWitness ==
    /\ IsDispatch(last)
    /\ last.sent.cls = "Walk"
    /\ Len(last.log) = 1
    /\ last.log[1].func = "Lookout.on_walk"
    /\ ~last.event.cancelled

(***************************************************************************)
(* Frame properties: what reads leave alone, and what an operation on one  *)
(* Thing leaves alone in the others.                                       *)
(***************************************************************************)
\* The step is a capability lookup or a slot read, what the status display
\* does with ICombatant(player).
Observes(l) == l.op \in {"adapt", "get"}

\* C22 as stated: a capability lookup or a slot read leaves every Thing's
\* attribute data and modifier list exactly as they were, the first read of
\* a slot included.
C22_ReadsWriteNothing ==
    [][Observes(last') => things' = things]_vars

\* C22, amended: a capability lookup or a slot read changes no modifier
\* list, no value a slot holds, nothing on the map or the queues; the one
\* thing it may add to the attribute data is the default of the slot it
\* reads for the first time, so that the value every slot stands for (its
\* stored value, or its default while it holds none) is as it was.
C22_ReadsOnlyStoreDefaults ==
    [][Observes(last')
       => /\ Len(things') = Len(things)
          /\ position' = position
          /\ immediate' = immediate
          /\ \A e \in 1..Len(things) :
               /\ things'[e].modifiers = things[e].modifiers
               /\ things'[e].type = things[e].type
               /\ \A a \in DOMAIN things[e].component_data :
                     /\ a \in DOMAIN things'[e].component_data
                     /\ things'[e].component_data[a] = things[e].component_data[a]
               /\ \A a \in DOMAIN things'[e].component_data
                             \ DOMAIN things[e].component_data :
                     /\ last'.op = "get"
                     /\ e = last'.entity
                     /\ a = last'.attr
                     /\ things'[e].component_data[a] = Initializer(a)]_vars

\* The strength of an entity that carries a modifier and whose health slot
\* was written was read for the first time: the slot now holds the default
\* and the other slot holds what was written.
C22_Witness ==
    /\ last.op = "get"
    /\ last.raised = "none"
    /\ last.attr = Strength
    /\ last.initialized
    /\ things[last.entity].modifiers # <<>>
    /\ things[last.entity].component_data[Strength] = StrengthDefault
    /\ Health \in DOMAIN things[last.entity].component_data
    /\ things[last.entity].component_data[Health] \in WriteValues

(***************************************************************************)
(* Two Things of one type and an item: what an operation on one Thing      *)
(* does to the others.                                                     *)
(***************************************************************************)
\* The Things of the scenario: two players and a piece of armor.
PairRoster == <<{Player}, {Player}, {Armor}>>

PopulatePair(t) == Create(PairRoster, t)

\* The slots external code reads.
PairSlots == {Health, Inventory}

\* The events fired: damage to a creature, a creature picking an item up.
PairEvents ==
    {Damage(t, AttackDamage) : t \in Creatures}
    \cup {Event("PickUp", a, t, 0) : a \in Creatures, t \in ThingIds \ Creatures}

NextPair ==
    \/ \E t \in 1..Len(types) : PopulatePair(t)
    \/ \E e \in Creatures, attr \in PairSlots : ReadSlot(e, attr)
    \/ \E e \in Creatures, attr \in WritableSlots, v \in WriteValues :
          WriteSlot(e, attr, v)
    \/ \E e \in Creatures, m \in ModifierArgs : AddModifiers(e, m)
    \/ \E ev \in PairEvents : HandleEvent(ev)
    \/ DrainImmediate
    \/ Return

SpecPair == Init /\ [][NextPair]_vars

\* The step leaves the attribute data and the modifier list of every Thing
\* outside the set as they were.
OnlyTouches(touched) ==
    \A f \in 1..Len(things) :
        f \notin touched
          => /\ things'[f].component_data = things[f].component_data
             /\ things'[f].modifiers = things[f].modifiers

\* A new Thing has no attribute data and no modifiers.
StartsEmpty ==
    last'.op = "new"
      => /\ Len(things') = Len(things) + 1
         /\ things'[Len(things')].component_data = <<>>
         /\ things'[Len(things')].modifiers = <<>>
         /\ OnlyTouches({})

C23_WriteWitness ==
    /\ last.op = "set"
    /\ last.raised = "none"
    /\ \E f \in ThingIds \ {last.entity} :
          /\ things[f].type = things[last.entity].type
          /\ Health \in DOMAIN things[f].component_data
          /\ things[f].component_data[Health] = HealthDefault
          /\ things[last.entity].component_data[Health] # HealthDefault

(***************************************************************************)
(* Event chains.                                                           *)
(***************************************************************************)
\* How many more dispatches an event of the class can cause.
ChainRank(cls) ==
    CASE cls = "MeleeAttack" -> 2
      [] cls = "Damage" -> 1
      [] OTHER -> 0

\* The events the dispatch of the step put on the immediate queue.
FollowUps(l) ==
    SubSeq(immediate', Len(QueueBefore(l)) + 1, Len(immediate'))

\* C24: every event chain terminates.  A dispatch only appends to the
\* immediate queue, and what it appends is fixed by the class of the event:
\* MeleeAttack queues only Damage, Damage at most one Die, and Die, Walk,
\* PickUp and Equip queue nothing; so every queued event has a lower rank
\* than the event that caused it, and the queue of a single fired event is
\* empty after at most three dispatches.
C24_EventChainsTerminate ==
    [][IsDispatch(last')
         => /\ Len(immediate') >= Len(QueueBefore(last'))
            /\ SubSeq(immediate', 1, Len(QueueBefore(last')))
                 = QueueBefore(last')
            /\ Len(FollowUps(last')) <= 1
            /\ \A i \in 1..Len(FollowUps(last')) :
                 /\ ChainRank(FollowUps(last')[i].cls)
                      < ChainRank(last'.sent.cls)
                 /\ last'.sent.cls = "MeleeAttack"
                      => FollowUps(last')[i].cls = "Damage"
                 /\ last'.sent.cls = "Damage"
                      => FollowUps(last')[i].cls = "Die"
            /\ last'.sent.cls \in {"Die", "Walk", "PickUp", "Equip"}
                 => FollowUps(last') = <<>>
            /\ last'.op = "fire" => QueueBefore(last') = <<>>]_vars

\* The end of a chain: a queued Die was dispatched to a Combatant, removed
\* it from the map and left the immediate queue empty.
C24_Witness ==
    /\ last.op = "drain"
    /\ last.sent.cls = "Die"
    /\ last.raised = "none"
    /\ Implements(last.entity, "ICombatant")
    /\ position[last.entity] = 0
    /\ immediate = <<>>

\* The middle of a chain: a queued Damage was dispatched and queued a Die.
C24_ChainWitness ==
    /\ last.op = "drain"
    /\ last.sent.cls = "Damage"
    /\ Len(immediate) = 1
    /\ immediate[1].cls = "Die"

(***************************************************************************)
(* Picking up: any Thing may be named as the actor of a PickUp.            *)
(***************************************************************************)
\* The Things of the scenario: a creature, a piece of armor and a floor tile.
CarryRoster == <<{Player, Sentinel}, {Armor}, {Floor}>>

PopulateCarry(t) == Create(CarryRoster, t)

\* PickUp events; the actor need not be able to carry anything.
PickUpEvents == {Event("PickUp", a, t, 0) : a \in ThingIds, t \in ThingIds}

NextCarry ==
    \/ \E t \in 1..Len(types) : PopulateCarry(t)
    \/ \E e \in ThingIds : ReadSlot(e, Inventory)
    \/ \E ev \in PickUpEvents : HandleEvent(ev)
    \/ Return

SpecCarry == Init /\ [][NextCarry]_vars

\* The inventories that hold the Thing.
Holders(thing_list, e) ==
    {f \in 1..Len(thing_list) :
        /\ Inventory \in DOMAIN thing_list[f].component_data
        /\ \E i \in 1..Len(thing_list[f].component_data[Inventory]) :
              thing_list[f].component_data[Inventory][i] = e}

\* C25: a PickUp dispatched to a Portable item whose actor does not implement
\* the Container capability fails with the lookup's KeyError after the item
\* has been removed from the map: the item is off the map and no inventory
\* has gained it, so an item that was on the map is afterwards in neither the
\* map nor any inventory.
C25_FailedPickUpLosesItem ==
    [][(/\ IsDispatch(last')
        /\ last'.sent.cls = "PickUp"
        /\ Implements(last'.entity, "IPortable")
        /\ TypeOf(types, things[last'.entity]).layer = "item"
        /\ ~Implements(last'.sent.actor, "IContainer"))
         => /\ last'.raised = "KeyError"
            /\ position'[last'.entity] = 0
            /\ things' = things
            /\ Holders(things', last'.entity) = Holders(things, last'.entity)]_vars

\* An item that was on the map is lost: the PickUp failed with KeyError and
\* the item is in neither the map nor any inventory.
C25_Witness ==
    /\ IsDispatch(last)
    /\ last.sent.cls = "PickUp"
    /\ last.raised = "KeyError"
    /\ ~Implements(last.sent.actor, "IContainer")
    /\ last.sent.actor # last.entity
    /\ position[last.entity] = 0
    /\ Holders(things, last.entity) = {}
    /\ \E f \in ThingIds : /\ Implements(f, "IContainer")
                           /\ Inventory \in DOMAIN things[f].component_data

(***************************************************************************)
(* Repeated deaths.                                                        *)
(***************************************************************************)
\* The health a Thing's Combatant reads: the stored value with the Thing's
\* modifiers applied.
HealthRead(thing) ==
    ApplyModifiers(thing.modifiers, Health, thing.component_data[Health])

\* C26: Die is not deduplicated.  Every Damage dispatched to a Combatant that
\* leaves its health at zero or below appends a new Die for the entity to the
\* immediate queue, whatever the health was before, also when it was already
\* zero or below and the entity is already off the map.
C26_EveryFatalDamageQueuesDie ==
    [][(/\ Delivers(last', "Damage", "ICombatant")
        /\ HealthRead(things'[last'.entity]) <= 0)
         => immediate' = Append(QueueBefore(last'), Die(last'.entity))]_vars

\* A Damage reached an entity that had died before: it is off the map, its
\* health was already zero or below before this Damage, and one more Die for
\* it is queued.
C26_Witness ==
    /\ IsDispatch(last)
    /\ last.sent.cls = "Damage"
    /\ last.raised = "none"
    /\ Implements(last.entity, "ICombatant")
    /\ things[last.entity].modifiers = <<>>
    /\ position[last.entity] = 0
    /\ things[last.entity].component_data[Health] + last.sent.amount <= 0
    /\ immediate = <<Die(last.entity)>>

\* The second Die of an entity was dispatched: its health went to zero and
\* then below in two Damages, each of which queued a Die, and the entity is
\* removed from the map once more.
C26_RemovedAgainWitness ==
    /\ last.op = "drain"
    /\ last.sent.cls = "Die"
    /\ last.raised = "none"
    /\ Implements(last.entity, "ICombatant")
    /\ things[last.entity].modifiers = <<>>
    /\ things[last.entity].component_data[Health] < 0
    /\ position[last.entity] = 0

(***************************************************************************)
(* A component that implements two capabilities: Scout, a creature type    *)
(* built with it, and an item to hand to the creature.                     *)
(***************************************************************************)
ScoutCatalog ==
    <<Creature(<<"Scout">>, "scout", <<>>).type,
      ThingType(<<"Portable", "Equipment">>, "item", "armor",
                ArmorModifiers).type>>

ScoutRoster == <<{1}, {2}>>

InitScout ==
    /\ types = ScoutCatalog
    /\ things = <<>>
    /\ position = <<>>
    /\ immediate = <<>>
    /\ deferred = <<>>
    /\ last = [op |-> "idle"]

PopulateScout(t) == Create(ScoutRoster, t)

NextScout ==
    \/ \E t \in 1..Len(types) : PopulateScout(t)
    \/ \E ev \in FiredEvents : HandleEvent(ev)
    \/ DrainImmediate
    \/ Return

SpecScout == InitScout /\ [][NextScout]_vars

\* How often the value occurs in the sequence.
Occurrences(seq, x) == Cardinality({i \in 1..Len(seq) : seq[i] = x})

\* C27: a component that implements k distinct capabilities other than the
\* marker has k entries in the component map of a type built with it, and a
\* dispatch that raises nothing calls each of its handlers for a class of
\* the event's mro k times, once per entry.
C27_OneEntryAndOneCallPerCapability ==
    (IsDispatch(last) /\ last.raised = "none")
    => LET cmap == TypeOf(types, things[last.entity]).components
       IN  \A component \in {cmap[i].component : i \in 1..Len(cmap)} :
             LET k == Cardinality(Capabilities(component))
             IN  /\ Cardinality({i \in 1..Len(cmap) :
                                    cmap[i].component = component}) = k
                 /\ \A cls \in Range(Mro(last.sent.cls)) :
                      \A func \in Range(EventHandlers(component, cls)) :
                        Cardinality({j \in 1..Len(last.log) :
                                       /\ last.log[j].component = component
                                       /\ last.log[j].event_class = cls
                                       /\ last.log[j].func = func})
                          = k * Occurrences(EventHandlers(component, cls), func)

\* A Walk was dispatched to a Thing with the Scout component: Scout.on_event
\* was called twice, once for the IObserver entry and once for the IScout
\* entry, while Solid.handle_walk was called once.
C27_Witness ==
    /\ IsDispatch(last)
    /\ last.raised = "none"
    /\ last.sent.cls = "Walk"
    /\ \E i, j \in 1..Len(last.log) :
          /\ i < j
          /\ last.log[i].func = "Scout.on_event"
          /\ last.log[j].func = "Scout.on_event"
          /\ last.log[i].iface = "IObserver"
          /\ last.log[j].iface = "IScout"
    /\ Cardinality({j \in 1..Len(last.log) :
                       last.log[j].func = "Solid.handle_walk"}) = 1

====
